---- MODULE Spec2Model ----
(***************************************************************************)
(* divan: the gateway request/response client (src/lib/gateway.ts,         *)
(* gwRequest) and the tool-trace query (src/app/api/tooltrace/route.ts).   *)
(* One call of gwRequest is one session: a WebSocket, the                  *)
(* `connected` flag, the 10 s timer and the promise handed to the caller.  *)
(* The transport (the ws library and the gateway behind it) is the         *)
(* environment: it opens the socket, delivers messages, reports errors and *)
(* closes.                                                                 *)
(***************************************************************************)
EXTENDS Integers, Sequences, FiniteSets, TLC

VARIABLES session, elapsed, trace, query, scanned, peer, sample

\* The state of one gwRequest call.
vars == <<session, elapsed, trace>>

\* The state of one tool-trace query (src/app/api/tooltrace/route.ts, GET).
tvars == <<query, scanned>>

\* The state of a second gwRequest call running at the same time.
pvars == <<peer>>

\* A text under truncation (truncate, and the result text of an entry).
svars == <<sample>>

allvars == <<session, elapsed, trace, query, scanned, peer, sample>>

(***************************************************************************)
(* Bounds of the model.                                                    *)
(***************************************************************************)
\* Longest run of transport and timer events explored for one call.
MaxEvents == 6

\* Most log lines scanned in one tool-trace query, over all agents and files.
MaxLines == 2

\* Most session files opened (or failing to open) in one tool-trace query.
MaxFiles == 2

\* Longest text, and largest bound, given to truncate on its own.
MaxLen == 3

\* Longest run of events explored for two concurrent calls, over both.
MaxPairEvents == 5

(***************************************************************************)
(* Wire vocabulary.                                                        *)
(***************************************************************************)
\* id of the connect request: "connect-" + reqId.
ConnectId == "connect-reqId"

\* id of the application request: reqId = crypto.randomUUID().
ReqId == "reqId"

\* An id the session never generated.
OtherId == "otherId"

\* Values a response carries in msg.payload (ok) or msg.error (not ok).
Bodies == {"b1", "b2"}

\* Data that JSON.parse rejects, or that parses to a value without fields.
Garbage == [type |-> "garbage", event |-> "", id |-> "", ok |-> FALSE, body |-> ""]

\* {type: "event", event: "connect.challenge"}
Challenge == [type |-> "event", event |-> "connect.challenge", id |-> "", ok |-> FALSE, body |-> ""]

\* An event of another name: a well-formed message of no handled shape.
OtherEvent == [type |-> "event", event |-> "tick", id |-> "", ok |-> FALSE, body |-> ""]

\* {type: "res", id, ok, payload | error}
Res(id, ok, body) == [type |-> "res", event |-> "", id |-> id, ok |-> ok, body |-> body]

\* A response whose id is neither of the session's: its content is never read.
OtherRes == Res(OtherId, TRUE, "b1")

Responses == {Res(id, ok, b) : id \in {ConnectId, ReqId}, ok \in BOOLEAN, b \in Bodies}

Messages == {Garbage, Challenge, OtherEvent, OtherRes} \cup Responses

(***************************************************************************)
(* The promise returned to the caller.                                     *)
(***************************************************************************)
Pending == [state |-> "pending", kind |-> "none", data |-> ""]

\* resolve(msg.payload)
Fulfilled(payload) == [state |-> "fulfilled", kind |-> "payload", data |-> payload]

\* reject(new Error(...)): kind names the message text, data the error payload
\* it embeds through JSON.stringify.
Rejected(kind, data) == [state |-> "rejected", kind |-> kind, data |-> data]

\* A later resolve or reject overwrites the outcome.
SettleOverwrites(s, outcome) == [s EXCEPT !.promise = outcome]

\* resolve/reject of a JavaScript promise: only the first call settles it.
Settle(s, outcome) ==
    IF s.promise.state = "pending" THEN [s EXCEPT !.promise = outcome] ELSE s

(***************************************************************************)
(* Calls into the runtime made by the handlers.                            *)
(***************************************************************************)
\* ws.close(): starts the closing handshake of an open socket; on a socket
\* still connecting it aborts the handshake, and nothing will be received
\* (the error the abort emits finds the timer fired and the promise
\* settled, and changes nothing).
WsClose(s) ==
    [s EXCEPT !.closeCalls = @ + 1,
              !.ws = IF @ \in {"CONNECTING", "OPEN"} THEN "CLOSING" ELSE @,
              !.rx = IF s.ws = "CONNECTING" THEN FALSE ELSE @]

\* ws.send(): the frame reaches the wire only on an open socket.
WsSend(s, req) ==
    IF s.ws = "OPEN" THEN [s EXCEPT !.sent = Append(@, req)] ELSE s

\* clearTimeout(timeout): cancels the timer unless it has already fired.
ClearTimeout(s) ==
    [s EXCEPT !.timeout = IF @ = "armed" THEN "cleared" ELSE @]

(***************************************************************************)
(* The message handler, ws.on("message").                                  *)
(***************************************************************************)
\* The challenge test without the `connected` flag.
IsChallengeNoFlag(s, msg) ==
    msg.type = "event" /\ msg.event = "connect.challenge"

\* msg.type === "event" && msg.event === "connect.challenge" && !connected
IsChallenge(s, msg) ==
    msg.type = "event" /\ msg.event = "connect.challenge" /\ ~s.connected

\* A challenge branch that sends the application request along with the
\* connect request, without waiting for the connect response.
ChallengeBranchSendsBoth(s) ==
    WsSend(WsSend([s EXCEPT !.connected = TRUE], "connect"), "app")

\* connected = true; ws.send(connect request)
ChallengeBranch(s) == WsSend([s EXCEPT !.connected = TRUE], "connect")

\* The connect branch that never looks at msg.ok.
ConnectResponseIgnoresOk(s, msg) == WsSend(s, "app")

\* Response with the connect id: reject on failure, else send the request.
ConnectResponse(s, msg) ==
    IF ~msg.ok
    THEN Settle(WsClose(ClearTimeout(s)), Rejected("Connect failed: ", msg.body))
    ELSE WsSend(s, "app")

\* The application branch with the ok test inverted.
RequestResponseInverted(s, msg) ==
    LET t == WsClose(ClearTimeout(s))
    IN  IF ~msg.ok THEN Settle(t, Fulfilled(msg.body))
        ELSE Settle(t, Rejected("", msg.body))

\* Response with the request id: resolve with the payload or reject.
RequestResponse(s, msg) ==
    LET t == WsClose(ClearTimeout(s))
    IN  IF msg.ok THEN Settle(t, Fulfilled(msg.body))
        ELSE Settle(t, Rejected("", msg.body))

\* The whole handler; a throw inside the try block leaves the session as is.
OnMessage(s, msg) ==
    IF msg.type = "garbage" THEN s
    ELSE IF IsChallenge(s, msg) THEN ChallengeBranch(s)
    ELSE IF msg.type = "res" /\ msg.id = ConnectId THEN ConnectResponse(s, msg)
    ELSE IF msg.type = "res" /\ msg.id = ReqId THEN RequestResponse(s, msg)
    ELSE s

(***************************************************************************)
(* The other callbacks.                                                    *)
(***************************************************************************)
\* setTimeout callback: ws.close(); reject(new Error("Gateway WS timeout"))
OnTimeout(s) ==
    Settle(WsClose([s EXCEPT !.timeout = "fired"]), Rejected("Gateway WS timeout", ""))

\* ws.on("error"): clearTimeout(timeout); reject(err)
OnError(s) == Settle(ClearTimeout(s), Rejected("transport", ""))

\* ws.on("close"): clearTimeout(timeout)
OnClose(s) == ClearTimeout(s)

(***************************************************************************)
(* State after `new Promise(...)` has run its executor.                    *)
(***************************************************************************)
NewSession ==
    [ws |-> "CONNECTING", rx |-> TRUE, connected |-> FALSE, timeout |-> "armed",
     promise |-> Pending, sent |-> <<>>, closeCalls |-> 0]

\* No tool-trace query is running.
IdleQuery == [pc |-> "idle"]

\* No second call is running.
NoPeer == [pc |-> "none"]

\* No text is under truncation.
NoSample == [pc |-> "none"]

Init ==
    /\ session = NewSession
    /\ elapsed = FALSE
    /\ trace = <<>>
    /\ query = IdleQuery
    /\ scanned = <<>>
    /\ peer = NoPeer
    /\ sample = NoSample

(***************************************************************************)
(* Events.  trace records them in the order they were handled.             *)
(***************************************************************************)
Ev(kind, msg) == [kind |-> kind, msg |-> msg]

\* The msg of an event that carries no data (open, error, close, deadline).
NoMsg == [type |-> "none", event |-> "", id |-> "", ok |-> FALSE, body |-> ""]

\* The ids are derived from a random UUID: the peer learns them from the
\* connect request and cannot name them before it was sent.
Deliverable(s) ==
    IF "connect" \in {s.sent[i] : i \in 1..Len(s.sent)}
    THEN Messages
    ELSE Messages \ Responses

\* The handshake completes: the socket becomes OPEN (no handler is registered).
Open ==
    /\ Len(trace) < MaxEvents
    /\ session.ws = "CONNECTING" /\ session.rx
    /\ session' = [session EXCEPT !.ws = "OPEN"]
    /\ trace' = Append(trace, Ev("open", NoMsg))
    /\ UNCHANGED elapsed

\* A message arrives; a socket the client is closing still delivers.
Deliver ==
    /\ Len(trace) < MaxEvents
    /\ session.ws \in {"OPEN", "CLOSING"} /\ session.rx
    /\ \E msg \in Deliverable(session) :
          /\ session' = OnMessage(session, msg)
          /\ trace' = Append(trace, Ev("message", msg))
    /\ UNCHANGED elapsed

\* The transport fails: it emits "error", stops receiving and tears down.
TransportError ==
    /\ Len(trace) < MaxEvents
    /\ session.ws # "CLOSED" /\ session.rx
    /\ session' = [OnError(session) EXCEPT !.ws = "CLOSING", !.rx = FALSE]
    /\ trace' = Append(trace, Ev("error", NoMsg))
    /\ UNCHANGED elapsed

\* The connection ends (closed by the peer, or a closing handshake or a
\* teardown completes): the transport emits "close".
TransportClose ==
    /\ Len(trace) < MaxEvents
    /\ session.ws \in {"OPEN", "CLOSING"}
    /\ session' = [OnClose(session) EXCEPT !.ws = "CLOSED", !.rx = FALSE]
    /\ trace' = Append(trace, Ev("close", NoMsg))
    /\ UNCHANGED elapsed

\* 10000 ms have passed since the call: the timer fires if still armed.
Deadline ==
    /\ Len(trace) < MaxEvents
    /\ ~elapsed
    /\ elapsed' = TRUE
    /\ session' = IF session.timeout = "armed" THEN OnTimeout(session) ELSE session
    /\ trace' = Append(trace, Ev("deadline", NoMsg))

Next ==
    \/ Open /\ UNCHANGED <<tvars, pvars, svars>>
    \/ Deliver /\ UNCHANGED <<tvars, pvars, svars>>
    \/ TransportError /\ UNCHANGED <<tvars, pvars, svars>>
    \/ TransportClose /\ UNCHANGED <<tvars, pvars, svars>>
    \/ Deadline /\ UNCHANGED <<tvars, pvars, svars>>

Spec == Init /\ [][Next]_allvars

(***************************************************************************)
(* Vocabulary of the properties.                                           *)
(***************************************************************************)
Range(seq) == {seq[i] : i \in 1..Len(seq)}

Count(seq, x) == Cardinality({i \in 1..Len(seq) : seq[i] = x})

IsPending(s) == s.promise.state = "pending"

\* The step handles the inbound message msg.
Delivered(msg) == trace' = Append(trace, Ev("message", msg))

\* The step handles a transport or timer event of this kind.
Handled(kind) == trace' = Append(trace, Ev(kind, NoMsg))

\* Section 4.1's states, read off the session: the connect request is sent
\* and not yet answered; the application request is sent.
Authenticating(s) ==
    IsPending(s) /\ "connect" \in Range(s.sent) /\ "app" \notin Range(s.sent)

Ready(s) == IsPending(s) /\ "app" \in Range(s.sent)

\* The id the session is waiting for.
Expected(s, msg) ==
    \/ msg.id = ConnectId /\ Authenticating(s)
    \/ msg.id = ReqId /\ Ready(s)

ConnOk(b) == Res(ConnectId, TRUE, b)

ConnFail(b) == Res(ConnectId, FALSE, b)

AppOk(b) == Res(ReqId, TRUE, b)

AppFail(b) == Res(ReqId, FALSE, b)

IsConnectRes(e) == e.kind = "message" /\ e.msg.type = "res" /\ e.msg.id = ConnectId

IsRequestRes(e) == e.kind = "message" /\ e.msg.type = "res" /\ e.msg.id = ReqId

\* A challenge has been handled earlier in the run.
ChallengeSeen(t) == \E i \in 1..Len(t) : t[i] = Ev("message", Challenge)

\* Messages that match no request of the session and have no handled shape.
Ignorable(e) == e.kind = "message" /\ e.msg \in {Garbage, OtherEvent, OtherRes}

NotIgnorable(e) == ~Ignorable(e)

\* The run is: open, challenge, successful connect response, successful
\* application response with payload p, with only ignorable messages between.
HappyRun(t, p) ==
    LET sig == SelectSeq(t, NotIgnorable)
    IN  /\ Len(sig) >= 4
        /\ sig[1].kind = "open"
        /\ sig[2] = Ev("message", Challenge)
        /\ IsConnectRes(sig[3]) /\ sig[3].msg.ok
        /\ sig[4] = Ev("message", AppOk(p))

\* The first response carrying the connect id reported failure.
FirstConnectResponseFailed(t) ==
    \E i \in 1..Len(t) :
        /\ IsConnectRes(t[i]) /\ ~t[i].msg.ok
        /\ \A j \in 1..(i - 1) : ~IsConnectRes(t[j])

\* A successful connect response arrived while the handshake was under way:
\* nothing but the open and messages that are no responses came before it.
HandshakeSucceeded(t) ==
    \E i \in 1..Len(t) :
        /\ IsConnectRes(t[i]) /\ t[i].msg.ok
        /\ \A j \in 1..(i - 1) :
              \/ t[j].kind = "open"
              \/ t[j].kind = "message" /\ ~IsConnectRes(t[j]) /\ ~IsRequestRes(t[j])

(***************************************************************************)
(* Properties.                                                             *)
(***************************************************************************)

\* C1: every call settles.  Once the transport is closed and the timer is no
\* longer armed no callback can run any more, so the promise must be settled
\* by then; otherwise the caller waits forever.
C1_CallSettles ==
    (session.ws = "CLOSED" /\ session.timeout # "armed") => ~IsPending(session)

\* C2: at most one outcome: once the promise is settled, no message, timer
\* expiry or transport event changes it.
C2_OutcomeIsFinal ==
    [][~IsPending(session) => session'.promise = session.promise]_vars

\* C2 witness: the call failed at the connect response and a successful
\* application response was handled after that.
C2_Witness ==
    /\ Len(trace) >= 2
    /\ session.promise.kind = "Connect failed: "
    /\ trace[Len(trace)] = Ev("message", AppOk("b1"))

\* C3: a response whose id is not the currently expected one (connect id while
\* Authenticating, application id while Ready) changes nothing.
C3_OnlyExpectedIdActs ==
    [][\A msg \in Messages :
          (Delivered(msg) /\ msg.type = "res" /\ ~Expected(session, msg))
              => session' = session]_vars

\* C4: when the deadline passes with no outcome yet, the call fails with the
\* timeout error and the transport is closed; the timeout error appears only
\* then.
C4_DeadlineFailsSession ==
    [][/\ (Handled("deadline") /\ IsPending(session))
            => /\ session'.promise = Rejected("Gateway WS timeout", "")
               /\ session'.ws \in {"CLOSING", "CLOSED"}
       /\ (session'.promise.kind = "Gateway WS timeout"
               /\ session.promise.kind # "Gateway WS timeout")
            => (Handled("deadline") /\ IsPending(session))]_vars

\* C5: the application request is sent at most once, and exactly once when
\* the connect handshake succeeded.
C5_AppRequestSentOnce ==
    /\ Count(session.sent, "app") <= 1
    /\ HandshakeSucceeded(trace) => Count(session.sent, "app") = 1

\* C6: the connect request is sent once, by the first challenge; every later
\* challenge leaves the session as it is.
C6_ConnectSentOnFirstChallengeOnly ==
    [][/\ Count(session'.sent, "connect") <= 1
       /\ (Delivered(Challenge) /\ ~ChallengeSeen(trace) /\ session.ws = "OPEN")
            => session'.sent = Append(session.sent, "connect")
       /\ (Delivered(Challenge) /\ ChallengeSeen(trace)) => session' = session
       /\ (Count(session'.sent, "connect") > Count(session.sent, "connect"))
            => (Delivered(Challenge) /\ ~ChallengeSeen(trace))]_vars

\* C6 witness: two challenges were handled and one connect request was sent.
C6_Witness ==
    /\ \E i, j \in 1..Len(trace) :
          i < j /\ trace[i] = Ev("message", Challenge) /\ trace[j] = Ev("message", Challenge)
    /\ Count(session.sent, "connect") = 1

\* C7: whenever the call has produced an outcome, the client has closed the
\* connection it opened.
C7_OutcomeImpliesClientClosed ==
    ~IsPending(session) => session.closeCalls >= 1

\* C8: challenge, successful connect response, successful application response
\* in that order resolve the call with the payload of that response.
C8_HappyPathResolvesWithPayload ==
    \A p \in Bodies : HappyRun(trace, p) => session.promise = Fulfilled(p)

\* C8 witness: such a run, with an ignorable message in it, has resolved.
C8_Witness ==
    /\ HappyRun(trace, "b2")
    /\ \E i \in 1..Len(trace) : Ignorable(trace[i])
    /\ session.promise = Fulfilled("b2")
    /\ session.sent = <<"connect", "app">>

C10_FailuresReachCaller ==
    [][/\ \A b \in Bodies :
            (Delivered(AppFail(b)) /\ IsPending(session))
                => session'.promise = Rejected("", b)
       /\ \A b \in Bodies :
            (Delivered(ConnFail(b)) /\ IsPending(session))
                => session'.promise.state = "rejected"
       /\ (Handled("error") /\ IsPending(session))
            => session'.promise.state = "rejected"
       /\ (Handled("deadline") /\ IsPending(session))
            => session'.promise.state = "rejected"]_vars

\* C11: a discarded message and a handshake step leave the deadline timer as
\* it is, and the timer is cancelled only in a step that produces the outcome.
C11_TimerCancelledOnlyAtOutcome ==
    [][/\ \A msg \in {Garbage, OtherEvent, OtherRes, Challenge} \cup
                     {ConnOk(b) : b \in Bodies} :
            Delivered(msg) => session'.timeout = session.timeout
       /\ (session.timeout = "armed" /\ session'.timeout = "cleared")
            => (IsPending(session) /\ ~IsPending(session'))]_vars

(***************************************************************************)
(* The tool-trace query, src/app/api/tooltrace/route.ts.                   *)
(*                                                                         *)
(* An optional value is <<>> when absent and <<v>> when present.  A text   *)
(* is a sequence of characters.                                            *)
(***************************************************************************)
None == <<>>

Some(v) == <<v>>

\* WINDOW_MS = 10 * 60 * 1000
WINDOW_MS == 600000

\* MAX_RAW_CHARS
MAX_RAW_CHARS == 4000

\* The bound of the preview, truncate(resultText, 800).
PREVIEW_CHARS == 800

\* listRecentSessionFiles keeps files.slice(0, 3).
RECENT_FILES == 3

\* The default of the limit parameter, "20".
DEFAULT_LIMIT == 20

\* The clamp of the limit parameter: Math.min(50, Math.max(1, ...)).
LIMIT_MIN == 1

LIMIT_MAX == 50

\* const now = Date.now(): the reading of the clock during the query, in ms.
Now == 1000000000

\* TOOL_CATEGORIES[name] || "other"
ToolCategory(name) ==
    CASE name = "exec" -> "terminal"
      [] name \in {"read", "write", "edit"} -> "files"
      [] name \in {"web_search", "web_fetch", "browser"} -> "internet"
      [] name \in {"memory_search", "memory_get"} -> "memory"
      [] name \in {"sessions_list", "sessions_send", "sessions_spawn",
                   "subagents", "sessions_history"} -> "agents"
      [] name \in {"cron", "gateway"} -> "system"
      [] name \in {"message", "tts"} -> "comms"
      [] name \in {"image", "canvas"} -> "media"
      [] name = "nodes" -> "devices"
      [] OTHER -> "other"

\* The character U+2026 (horizontal ellipsis).
Ellipsis == "U+2026"

\* The mark appended by truncate: newline, ellipsis, "(truncated)", ellipsis.
TruncatedMark ==
    <<"\n", Ellipsis, "(", "t", "r", "u", "n", "c", "a", "t", "e", "d", ")", Ellipsis>>

\* A truncate that keeps the end of the text instead of its start.
TruncateKeepsTail(s, n) ==
    IF Len(s) <= n THEN s ELSE SubSeq(s, Len(s) - n + 1, Len(s)) \o TruncatedMark

\* A truncate that returns the text whole.
TruncateNothing(s, n) == s

\* truncate(s, n), for a bound n >= 0 (the program passes 800 and 4000).
Truncate(s, n) ==
    IF Len(s) <= n THEN s ELSE SubSeq(s, 1, n) \o TruncatedMark

\* parts.join("\n")
RECURSIVE JoinLines(_)
JoinLines(parts) ==
    IF Len(parts) = 0 THEN <<>>
    ELSE IF Len(parts) = 1 THEN parts[1]
    ELSE parts[1] \o <<"\n">> \o JoinLines(Tail(parts))

\* extractResultText(content): content is an array of parts (the text of a
\* part is optional), a string, or anything else.
ExtractResultText(content) ==
    IF content.shape = "array"
    THEN LET texts == SelectSeq(content.parts, LAMBDA c : c # None)
         IN  JoinLines([i \in 1..Len(texts) |-> texts[i][1]])
    ELSE IF content.shape = "string" THEN content.text
    ELSE <<>>

\* safeJsonParse(resultText), for the texts of the model: the object a text
\* parses to, None for a text that is no JSON object.
NoFields == [status |-> None, ok |-> None, url |-> None, finalUrl |-> None]

SafeJsonParse(text) == None

(***************************************************************************)
(* Log lines.  A line is unparseable, or a JSON object with a type, a      *)
(* timestamp and a message.  ts is the time in ms the timestamp denotes,   *)
(* 0 for a missing or empty timestamp and -1 for one that Date cannot      *)
(* parse.                                                                  *)
(***************************************************************************)
NoDetails == [exitCode |-> None, durationMs |-> None]

NoContent == [shape |-> "none", parts |-> <<>>, text |-> <<>>]

TextParts(parts) == [shape |-> "array", parts |-> parts, text |-> <<>>]

\* Arguments of a tool call as logged: an object with these optional fields.
Args(command, url, targetUrl) ==
    [command |-> command, url |-> url, targetUrl |-> targetUrl]

EmptyArgs == Args(None, None, None)

\* An entry of an assistant message's content.
ToolCall(id, name, arguments) ==
    [type |-> "toolCall", id |-> id, name |-> name, arguments |-> arguments]

TextItem == [type |-> "text", id |-> "", name |-> "", arguments |-> None]

Line(parses, type, ts, role, items, toolCallId, toolName, isError, details, content) ==
    [parses |-> parses, type |-> type, ts |-> ts, role |-> role, items |-> items,
     toolCallId |-> toolCallId, toolName |-> toolName, isError |-> isError,
     details |-> details, content |-> content]

\* A line JSON.parse rejects.
BadLine == Line(FALSE, "", 0, "", <<>>, "", "", FALSE, NoDetails, NoContent)

\* A record of another type (a session header, a model change).
OtherTypeLine == Line(TRUE, "session", Now - 1000, "", <<>>, "", "", FALSE, NoDetails, NoContent)

\* An assistant message with these content entries.
AssistantLine(ts, items) ==
    Line(TRUE, "message", ts, "assistant", items, "", "", FALSE, NoDetails, NoContent)

\* A tool-result message.
ResultLine(ts, toolCallId, toolName, isError, details, content) ==
    Line(TRUE, "message", ts, "toolResult", <<>>, toolCallId, toolName, isError, details, content)

(***************************************************************************)
(* Trace entries (ToolTraceEvent).                                         *)
(***************************************************************************)
\* The entry pushed for a tool call.
CallEvent(agentId, ts, ageMs, c) ==
    LET name == c.name
        args == IF c.arguments = None THEN EmptyArgs ELSE c.arguments[1]
        fromTarget == IF name \in {"web_fetch", "browser"} THEN args.targetUrl ELSE None
        fromUrl == IF name \in {"web_fetch", "browser"} THEN args.url ELSE None
    IN  [agentId |-> agentId, ts |-> ts, ageMs |-> ageMs, tool |-> name,
         category |-> ToolCategory(name), toolCallId |-> c.id,
         args |-> Some(args),
         command |-> IF name = "exec" THEN args.command ELSE None,
         url |-> IF fromTarget # None THEN fromTarget ELSE fromUrl,
         status |-> None, ok |-> None, isError |-> None, exitCode |-> None,
         durationMs |-> None, resultText |-> None, resultRaw |-> None]

\* The base of a result without a remembered call.
BareBase(agentId, ts, ageMs, toolName, toolCallId) ==
    [agentId |-> agentId, ts |-> ts, ageMs |-> ageMs, tool |-> toolName,
     category |-> ToolCategory(toolName), toolCallId |-> toolCallId,
     args |-> None, command |-> None, url |-> None,
     status |-> None, ok |-> None, isError |-> None, exitCode |-> None,
     durationMs |-> None, resultText |-> None, resultRaw |-> None]

\* A merge that stamps the entry with the time of the result.
MergedEventResultTime(base, msg) ==
    [base EXCEPT !.ts = msg.ts, !.ageMs = Now - msg.ts,
                 !.tool = msg.toolName,
                 !.category = ToolCategory(msg.toolName),
                 !.isError = Some(msg.isError),
                 !.exitCode = msg.details.exitCode,
                 !.durationMs = msg.details.durationMs,
                 !.resultText = Some(Truncate(ExtractResultText(msg.content), PREVIEW_CHARS)),
                 !.resultRaw = Some(Truncate(ExtractResultText(msg.content), MAX_RAW_CHARS))]

\* The entry built for a tool result: {...base, tool, category, isError, ...},
\* then status, ok and url from a result text that is a JSON object.
MergedEvent(base, msg) ==
    LET resultText == ExtractResultText(msg.content)
        parsed == SafeJsonParse(resultText)
        p == IF parsed = None THEN NoFields ELSE parsed[1]
        url1 == IF base.url = None THEN p.url ELSE base.url
        url2 == IF url1 = None THEN p.finalUrl ELSE url1
    IN  [base EXCEPT !.tool = msg.toolName,
                     !.category = ToolCategory(msg.toolName),
                     !.isError = Some(msg.isError),
                     !.exitCode = msg.details.exitCode,
                     !.durationMs = msg.details.durationMs,
                     !.resultText = Some(Truncate(resultText, PREVIEW_CHARS)),
                     !.resultRaw = Some(Truncate(resultText, MAX_RAW_CHARS)),
                     !.status = IF p.status # None THEN p.status ELSE @,
                     !.ok = IF p.ok # None THEN p.ok ELSE @,
                     !.url = url2]

(***************************************************************************)
(* readToolTraceForAgent: the scan of one line.  st holds the calls map    *)
(* and the events collected so far.                                        *)
(***************************************************************************)
\* category && cat !== category, tool && name !== tool: an absent (or empty)
\* filter excludes nothing.
PassesFilters(cat, name, category, tool) ==
    /\ category = None \/ cat = category[1]
    /\ tool = None \/ name = tool[1]

\* The window test that lets every record through.
InWindowAlways(line) == TRUE

\* !(!tsMs || ageMs > WINDOW_MS): the timestamp is present and parseable and
\* the record is not older than the window.
InWindow(line) == line.ts > 0 /\ ~(Now - line.ts > WINDOW_MS)

\* calls.set(toolCallId, ev)
CallsSet(calls, id, ev) == [k \in DOMAIN calls \cup {id} |-> IF k = id THEN ev ELSE calls[k]]

\* calls.get(toolCallId) || {agentId, ts, ageMs, tool, category, toolCallId}
CallsGet(calls, id, bare) == IF id \in DOMAIN calls THEN calls[id] ELSE bare

\* The loop over msg.content of an assistant message.
RECURSIVE PushCalls(_, _, _, _, _, _)
PushCalls(st, agentId, line, items, category, tool) ==
    IF items = <<>> THEN st
    ELSE LET c == Head(items)
             ev == CallEvent(agentId, line.ts, Now - line.ts, c)
             next ==
                 IF c.type # "toolCall" THEN st
                 ELSE IF ~PassesFilters(ToolCategory(c.name), c.name, category, tool) THEN st
                 ELSE [st EXCEPT !.calls = CallsSet(@, c.id, ev),
                                 !.events = Append(@, ev)]
         IN  PushCalls(next, agentId, line, Tail(items), category, tool)

\* The result branch without the category and tool filters.
PushResultUnfiltered(st, agentId, line, category, tool) ==
    LET bare == BareBase(agentId, line.ts, Now - line.ts, line.toolName, line.toolCallId)
    IN  [st EXCEPT !.events =
            Append(@, MergedEvent(CallsGet(st.calls, line.toolCallId, bare), line))]

\* A result branch that merges into the remembered call itself
\* (Object.assign(base, ...)): the call in the map and the entry already
\* collected are that same object, and change with it.
PushResultInPlace(st, agentId, line, category, tool) ==
    LET bare == BareBase(agentId, line.ts, Now - line.ts, line.toolName, line.toolCallId)
        base == CallsGet(st.calls, line.toolCallId, bare)
        merged == MergedEvent(base, line)
    IN  IF ~PassesFilters(ToolCategory(line.toolName), line.toolName, category, tool)
        THEN st
        ELSE [calls |-> [k \in DOMAIN st.calls |->
                            IF k = line.toolCallId THEN merged ELSE st.calls[k]],
              events |-> Append([i \in 1..Len(st.events) |->
                                    IF st.events[i] = base THEN merged ELSE st.events[i]],
                                merged)]

\* A result branch that drops a result whose call is not remembered.
PushResultNeedsCall(st, agentId, line, category, tool) ==
    IF ~PassesFilters(ToolCategory(line.toolName), line.toolName, category, tool)
    THEN st
    ELSE IF line.toolCallId \notin DOMAIN st.calls THEN st
    ELSE [st EXCEPT !.events = Append(@, MergedEvent(st.calls[line.toolCallId], line))]

\* The branch for a toolResult message.
PushResult(st, agentId, line, category, tool) ==
    LET bare == BareBase(agentId, line.ts, Now - line.ts, line.toolName, line.toolCallId)
    IN  IF ~PassesFilters(ToolCategory(line.toolName), line.toolName, category, tool)
        THEN st
        ELSE [st EXCEPT !.events =
                 Append(@, MergedEvent(CallsGet(st.calls, line.toolCallId, bare), line))]

\* A scan that gives up at an unparseable line: what was collected is lost.
ScanLineAborting(st, agentId, line, category, tool) ==
    IF ~line.parses THEN [st EXCEPT !.events = <<>>, !.calls = <<>>]
    ELSE IF line.type # "message" THEN st
    ELSE IF ~InWindow(line) THEN st
    ELSE LET st1 == IF line.role = "assistant"
                    THEN PushCalls(st, agentId, line, line.items, category, tool)
                    ELSE st
         IN  IF line.role = "toolResult"
             THEN PushResult(st1, agentId, line, category, tool)
             ELSE st1

\* The body of `for (const line of lines)`.
ScanLine(st, agentId, line, category, tool) ==
    IF ~line.parses THEN st
    ELSE IF line.type # "message" THEN st
    ELSE IF ~InWindow(line) THEN st
    ELSE LET st1 == IF line.role = "assistant"
                    THEN PushCalls(st, agentId, line, line.items, category, tool)
                    ELSE st
         IN  IF line.role = "toolResult"
             THEN PushResult(st1, agentId, line, category, tool)
             ELSE st1

(***************************************************************************)
(* readToolTraceForAgent: dedupe, sort, slice.                             *)
(***************************************************************************)
\* A flag that tests whether the raw text is defined (resultRaw !== undefined).
ResultFlagDefined(e) == IF e.resultRaw # None THEN "r" ELSE "c"

\* e.resultRaw ? "r" : "c": an absent or empty raw text is falsy.
ResultFlag(e) == IF e.resultRaw # None /\ e.resultRaw[1] # <<>> THEN "r" ELSE "c"

\* `${e.toolCallId}:${e.tool}:${e.ts}:${e.resultRaw ? "r" : "c"}`
Key(e) == <<e.toolCallId, ":", e.tool, ":", e.ts, ":", ResultFlag(e)>>

\* Array.from(uniq.values()) with no deduplication at all.
DedupeNothing(events) == events

\* uniq.set(k, e) for every event, then Array.from(uniq.values()): a key keeps
\* the place of its first event and the value of its last.
Dedupe(events) ==
    LET idx == [i \in 1..Len(events) |-> i]
        first == SelectSeq(idx, LAMBDA i : \A j \in 1..(i - 1) : Key(events[j]) # Key(events[i]))
        last(i) == CHOOSE j \in 1..Len(events) :
                      /\ Key(events[j]) = Key(events[i])
                      /\ \A k \in (j + 1)..Len(events) : Key(events[k]) # Key(events[i])
    IN  [n \in 1..Len(first) |-> events[last(first[n])]]

\* The comparator of the sort: (a, b) => b.ageMs - a.ageMs.
Compare(a, b) == b.ageMs - a.ageMs

\* One step of a stable sort: e goes before the first element that the
\* comparator orders after it.
InsertSorted(sorted, e) ==
    LET after == {i \in 1..Len(sorted) : Compare(sorted[i], e) > 0}
        pos == IF after = {} THEN Len(sorted) + 1
               ELSE CHOOSE i \in after : \A j \in after : i <= j
    IN  SubSeq(sorted, 1, pos - 1) \o <<e>> \o SubSeq(sorted, pos, Len(sorted))

\* arr.sort((a, b) => b.ageMs - a.ageMs)
RECURSIVE SortEvents(_)
SortEvents(arr) ==
    IF arr = <<>> THEN <<>>
    ELSE InsertSorted(SortEvents(SubSeq(arr, 1, Len(arr) - 1)), arr[Len(arr)])

\* The return without the slice.
SliceNothing(arr, limit) == arr

\* arr.slice(0, limit); a limit that is NaN slices to nothing.
Slice(arr, limit) ==
    IF limit.nan THEN <<>>
    ELSE SubSeq(arr, 1, IF limit.n < Len(arr) THEN limit.n ELSE Len(arr))

\* The list returned for the events collected.
Finish(events, limit) == Slice(SortEvents(Dedupe(events)), limit)

(***************************************************************************)
(* GET: the request parameters.                                            *)
(***************************************************************************)
\* A number as parseInt returns it: NaN, or the integer n.
NaN == [nan |-> TRUE, n |-> 0]

Num(n) == [nan |-> FALSE, n |-> n]

Max(a, b) == IF a >= b THEN a ELSE b

Min(a, b) == IF a <= b THEN a ELSE b

\* Math.min(50, Math.max(1, parseInt(searchParams.get("limit") || "20", 10))).
\* The parameter is absent (or empty), or a string parseInt reads as v.
ParseLimit(param) ==
    LET parsed == IF param = None THEN Num(DEFAULT_LIMIT) ELSE param[1]
    IN  IF parsed.nan THEN NaN
        ELSE Num(Min(LIMIT_MAX, Max(LIMIT_MIN, parsed.n)))

\* discoverAgents(): the ids found, "main" first.
AgentIds == <<"main", "dev">>

\* agent === "all" ? agentIds : agentIds.includes(agent) ? [agent] : ["main"]
Targets(agent) ==
    IF agent = "all" THEN AgentIds
    ELSE IF \E i \in 1..Len(AgentIds) : AgentIds[i] = agent THEN <<agent>>
    ELSE <<"main">>

Request(agent, category, tool, limit) ==
    [agent |-> agent, category |-> category, tool |-> tool, limit |-> limit]

(***************************************************************************)
(* The inputs of the model: timestamps, log lines and requests.            *)
(***************************************************************************)
\* Timestamps 2 s and 1 s old, exactly as old as the window, and 1 ms older.
T1 == Now - 2000

T2 == Now - 1000

TEdge == Now - WINDOW_MS

TOld == Now - WINDOW_MS - 1

\* A timestamp field that Date.parse cannot read (NaN).
TsUnparseable == -1

Ok == <<"o", "k">>

LsArgs == Some(Args(Some("ls"), None, None))

CallLine(ts, id, name, arguments) == AssistantLine(ts, <<ToolCall(id, name, arguments)>>)

CallLines ==
    {CallLine(T1, "a", "exec", LsArgs),
     CallLine(TEdge, "b", "exec", LsArgs),
     CallLine(TOld, "a", "exec", LsArgs),
     AssistantLine(T1, <<TextItem, ToolCall("a", "exec", LsArgs), ToolCall("b", "read", None)>>)}

ResultLines ==
    {ResultLine(T2, "a", "exec", FALSE, [exitCode |-> Some(0), durationMs |-> Some(5)],
                TextParts(<<Some(Ok)>>)),
     ResultLine(T2, "a", "exec", FALSE, NoDetails, TextParts(<<>>)),
     ResultLine(T2, "a", "read", TRUE, NoDetails, TextParts(<<Some(Ok), None>>)),
     ResultLine(TsUnparseable, "a", "exec", FALSE, NoDetails, TextParts(<<Some(Ok)>>))}

LogLines == {BadLine, OtherTypeLine} \cup CallLines \cup ResultLines

Requests ==
    {Request("all", None, None, None),
     Request("main", Some("files"), None, Some(Num(51))),
     Request("dev", None, Some("exec"), Some(Num(0))),
     Request("dev", Some("terminal"), Some("exec"), None),
     Request("main", None, None, Some(NaN)),
     Request("main", None, None, Some(Num(2))),
     Request("nobody", None, None, Some(Num(1)))}

(***************************************************************************)
(* GET as a state machine: the loop over the target agents, and for each   *)
(* agent the listing of its session files, the read of each file, the scan *)
(* of each line and the return of its list.  scanned records what the      *)
(* query met, in order.                                                    *)
(***************************************************************************)
\* GET up to the loop: parameters parsed, targets chosen, byAgent = {}.
NewQuery(req) ==
    [pc |-> "loop", req |-> req, limit |-> ParseLimit(req.limit),
     todo |-> Targets(req.agent), agent |-> "", calls |-> <<>>, events |-> <<>>,
     files |-> 0, open |-> FALSE, byAgent |-> <<>>, error |-> None]

\* A calls map that survives from the previous agent.
KeepCalls(calls) == calls

\* const calls = new Map(): every call of readToolTraceForAgent starts empty.
NewCalls(calls) == <<>>

\* byAgent[id] = list
SetByAgent(byAgent, id, list) ==
    [k \in DOMAIN byAgent \cup {id} |-> IF k = id THEN list ELSE byAgent[k]]

\* byAgent[id] = list, then the next target; after the last target the
\* response is sent.
Assign(q, list) ==
    [q EXCEPT !.byAgent = SetByAgent(@, Head(q.todo), list),
              !.todo = Tail(@),
              !.pc = IF Tail(q.todo) = <<>> THEN "done" ELSE "loop"]

\* A listing failure that escapes to GET's catch: the response is an error.
ListThrows(q) == [q EXCEPT !.pc = "done", !.error = Some("error")]

\* listRecentSessionFiles throws: readToolTraceForAgent returns [].
ListCaught(q) == Assign(q, <<>>)

Met(agent, what, line) == [agent |-> agent, what |-> what, line |-> line]

TraceInit ==
    /\ session = NewSession
    /\ elapsed = FALSE
    /\ trace = <<>>
    /\ query \in {NewQuery(req) : req \in Requests}
    /\ scanned = <<>>
    /\ peer = NoPeer
    /\ sample = NoSample

\* The session directory of the next agent cannot be listed.
ListFails ==
    /\ query.pc = "loop" /\ query.todo # <<>>
    /\ query' = ListCaught(query)
    /\ scanned' = Append(scanned, Met(Head(query.todo), "nolist", BadLine))

\* The session files of the next agent are listed: the scan starts.
ListFiles ==
    /\ query.pc = "loop" /\ query.todo # <<>>
    /\ query' = [query EXCEPT !.pc = "scan", !.agent = Head(query.todo),
                              !.calls = NewCalls(@), !.events = <<>>,
                              !.files = 0, !.open = FALSE]
    /\ UNCHANGED scanned

FilesOpened == Cardinality({i \in 1..Len(scanned) : scanned[i].what \in {"noread", "read"}})

LinesScanned == Cardinality({i \in 1..Len(scanned) : scanned[i].what = "line"})

\* The next of the (at most three) files cannot be read: continue.
ReadFails ==
    /\ query.pc = "scan" /\ query.files < RECENT_FILES /\ FilesOpened < MaxFiles
    /\ query' = [query EXCEPT !.files = @ + 1, !.open = FALSE]
    /\ scanned' = Append(scanned, Met(query.agent, "noread", BadLine))

\* The next of the (at most three) files is read.
ReadFile ==
    /\ query.pc = "scan" /\ query.files < RECENT_FILES /\ FilesOpened < MaxFiles
    /\ query' = [query EXCEPT !.files = @ + 1, !.open = TRUE]
    /\ scanned' = Append(scanned, Met(query.agent, "read", BadLine))

\* The next line of the file is scanned.
ScanNext ==
    /\ query.pc = "scan" /\ query.open /\ LinesScanned < MaxLines
    /\ \E line \in LogLines :
          /\ LET st == ScanLine([calls |-> query.calls, events |-> query.events],
                                query.agent, line, query.req.category, query.req.tool)
             IN  query' = [query EXCEPT !.calls = st.calls, !.events = st.events]
          /\ scanned' = Append(scanned, Met(query.agent, "line", line))

\* readToolTraceForAgent returns: byAgent[id] gets the list.
Return ==
    /\ query.pc = "scan"
    /\ query' = [Assign(query, Finish(query.events, query.limit)) EXCEPT !.open = FALSE]
    /\ UNCHANGED scanned

TraceNext ==
    \/ ListFails /\ UNCHANGED <<vars, pvars, svars>>
    \/ ListFiles /\ UNCHANGED <<vars, pvars, svars>>
    \/ ReadFails /\ UNCHANGED <<vars, pvars, svars>>
    \/ ReadFile /\ UNCHANGED <<vars, pvars, svars>>
    \/ ScanNext /\ UNCHANGED <<vars, pvars, svars>>
    \/ Return /\ UNCHANGED <<vars, pvars, svars>>

TraceSpec == TraceInit /\ [][TraceNext]_allvars

(***************************************************************************)
(* Vocabulary of the tool-trace properties.                                *)
(***************************************************************************)
\* The lines the query scanned in the log files of an agent, in order.
LinesOf(agent) ==
    LET met == SelectSeq(scanned, LAMBDA m : m.agent = agent /\ m.what = "line")
    IN  [i \in 1..Len(met) |-> met[i].line]

\* The agents whose list has been returned.
Returned == DOMAIN query.byAgent

\* The list returned for the agent was not cut by the limit.
NotCut(agent) ==
    /\ agent = query.agent
    /\ Len(query.byAgent[agent]) = Len(Dedupe(query.events))

\* The entry was built from a tool result (merged or synthesized).
ResultBearing(e) == e.isError # None

\* The line is inside the window and has a tool call with this id that the
\* filters of the request let through.
QualifyingCall(line, id) ==
    /\ line.parses /\ line.type = "message" /\ line.role = "assistant" /\ InWindow(line)
    /\ \E i \in 1..Len(line.items) :
          /\ line.items[i].type = "toolCall" /\ line.items[i].id = id
          /\ PassesFilters(ToolCategory(line.items[i].name), line.items[i].name,
                           query.req.category, query.req.tool)

\* The line is inside the window and is a tool result for this id that the
\* filters of the request let through.
QualifyingResult(line, id) ==
    /\ line.parses /\ line.type = "message" /\ line.role = "toolResult" /\ InWindow(line)
    /\ line.toolCallId = id
    /\ PassesFilters(ToolCategory(line.toolName), line.toolName,
                     query.req.category, query.req.tool)

\* The agent's logs hold a qualifying call and a later qualifying result
\* with this id.
CallThenResult(agent, id) ==
    \E i, j \in 1..Len(LinesOf(agent)) :
        /\ i < j
        /\ QualifyingCall(LinesOf(agent)[i], id)
        /\ QualifyingResult(LinesOf(agent)[j], id)

EntriesFor(list, id) == {i \in 1..Len(list) : list[i].toolCallId = id}

CallIds == {"a", "b"}

\* C12: when an agent's logs hold a qualifying tool call and a later
\* qualifying tool result with the same toolCallId, the agent's list (when
\* the limit did not cut it) has exactly one entry for that toolCallId, and
\* that entry is the result-bearing one.
C12_MergeSupersedes ==
    \A agent \in Returned : \A id \in CallIds :
        (NotCut(agent) /\ CallThenResult(agent, id))
            => /\ Cardinality(EntriesFor(query.byAgent[agent], id)) = 1
               /\ \A i \in EntriesFor(query.byAgent[agent], id) :
                     ResultBearing(query.byAgent[agent][i])

\* C13: each agent's list is ordered most recent first: of two entries, the
\* earlier in the list is not the older one.
C13_MostRecentFirst ==
    \A agent \in Returned :
        \A i, j \in 1..Len(query.byAgent[agent]) :
            i < j => query.byAgent[agent][i].ageMs <= query.byAgent[agent][j].ageMs

\* Every entry of every returned list.
Listed == UNION {Range(query.byAgent[agent]) : agent \in Returned}

\* Every entry collected or remembered as a call by the scan in progress.
Held == Range(query.events) \cup {query.calls[id] : id \in DOMAIN query.calls}

\* The line has no parseable timestamp or is older than the window.
OutOfWindow(line) ==
    /\ line.parses /\ line.type = "message"
    /\ (line.ts <= 0 \/ Now - line.ts > WINDOW_MS)

\* C14: no entry of a returned list is older than the window, whatever the
\* filters are: a record without a parseable timestamp or older than the
\* window produces no entry and is not remembered as a call, so that merged
\* entries are inside the window too.
C14_WindowExclusion ==
    \A e \in Listed \cup Held : e.ts > 0 /\ e.ageMs <= WINDOW_MS

\* A list was returned for logs that hold a record outside the window, and
\* it has an entry exactly as old as the window.
C14_Witness ==
    /\ query.pc = "done"
    /\ \E agent \in Returned :
          /\ \E i \in 1..Len(LinesOf(agent)) : OutOfWindow(LinesOf(agent)[i])
          /\ \E e \in Range(query.byAgent[agent]) : e.ageMs = WINDOW_MS

\* The four fields the claim names: toolCallId, tool name, timestamp and
\* whether the entry carries (non-empty) result text.
HasResult(e) == e.resultRaw # None /\ e.resultRaw[1] # <<>>

Identity(e) == <<e.toolCallId, e.tool, e.ts, HasResult(e)>>

\* The positions of the collected events that have the identity of e.
SameIdentity(events, e) == {i \in 1..Len(events) : Identity(events[i]) = Identity(e)}

Last(S) == CHOOSE i \in S : \A j \in S : j <= i

EffectiveLimit(param) ==
    IF param = None THEN 20
    ELSE IF param[1].nan THEN 1
    ELSE IF param[1].n < 1 THEN 1
    ELSE IF param[1].n > 50 THEN 50
    ELSE param[1].n

RECURSIVE ScanLog(_, _, _, _)
ScanLog(lines, agentId, category, tool) ==
    IF lines = <<>> THEN [calls |-> <<>>, events |-> <<>>]
    ELSE ScanLine(ScanLog(SubSeq(lines, 1, Len(lines) - 1), agentId, category, tool),
                  agentId, lines[Len(lines)], category, tool)

\* The log without the lines that do not parse.
Parseable(lines) == SelectSeq(lines, LAMBDA line : line.parses)

\* The list for a log: what the scan collects, deduplicated, sorted and cut.
ListFor(lines, agentId) ==
    Finish(ScanLog(lines, agentId, query.req.category, query.req.tool).events, query.limit)

MetFor(agent, what) == \E i \in 1..Len(scanned) : scanned[i] = Met(agent, what, BadLine)

\* The targets of the request, as a set.
TargetSet == Range(Targets(query.req.agent))

\* C18: when the session files of an agent cannot be listed or read, the
\* response is still well formed: no error, a list for every target, the
\* empty list for an agent whose files cannot be listed, and for every
\* agent the list of the lines of its own readable files, whatever failed
\* for itself or for the others.
C18_FailuresAreLocal ==
    /\ query.error = None
    /\ \A agent \in Returned :
          /\ agent \in TargetSet
          /\ MetFor(agent, "nolist") => query.byAgent[agent] = <<>>
          /\ query.byAgent[agent] = ListFor(LinesOf(agent), agent)
    /\ query.pc = "done" => Returned = TargetSet

\* The response was sent for two agents: the files of the first could not
\* be listed, a file of the second could not be read, and the second has
\* entries.
C18_Witness ==
    /\ query.pc = "done"
    /\ \E failed, other \in Returned :
          /\ failed # other
          /\ MetFor(failed, "nolist")
          /\ MetFor(other, "noread")
          /\ query.byAgent[other] # <<>>

\* The kinds of entry: pushed for a call, built from a result on a
\* remembered call, built from a result without one.
CallOnly(e) == e.isError = None

Merged(e) == e.isError # None /\ e.args # None

Synthesized(e) == e.isError # None /\ e.args = None

\* C19: with a category filter every returned entry has that category, and
\* with a tool filter every returned entry has that tool name, be the entry
\* call-only, merged or synthesized.
C19_FiltersHold ==
    \A e \in Listed \cup Range(query.events) :
        /\ query.req.category # None => e.category = query.req.category[1]
        /\ query.req.tool # None => e.tool = query.req.tool[1]

\* The line holds a call or a result that the filters of the request exclude.
Excluded(line) ==
    /\ line.parses /\ line.type = "message" /\ InWindow(line)
    /\ \/ /\ line.role = "toolResult"
          /\ ~PassesFilters(ToolCategory(line.toolName), line.toolName,
                            query.req.category, query.req.tool)
       \/ /\ line.role = "assistant"
          /\ \E i \in 1..Len(line.items) :
                /\ line.items[i].type = "toolCall"
                /\ ~PassesFilters(ToolCategory(line.items[i].name), line.items[i].name,
                                  query.req.category, query.req.tool)

\* A list with a call-only and a merged entry was returned for a filtered
\* request whose logs hold a record the filters exclude.
C19_Witness ==
    /\ query.pc = "done"
    /\ \E agent \in Returned :
          /\ \E i \in 1..Len(LinesOf(agent)) : Excluded(LinesOf(agent)[i])
          /\ \E e \in Range(query.byAgent[agent]) : Merged(e)
          /\ \E e \in Range(query.byAgent[agent]) : CallOnly(e)

\* A list with a synthesized entry was returned for a filtered request.
C19_SynthesizedWitness ==
    /\ query.pc = "done"
    /\ query.req.category # None \/ query.req.tool # None
    /\ \E e \in Listed : Synthesized(e)

\* C20: a tool result of one agent is never merged with a tool call of
\* another: the calls remembered during an agent's scan and the entries of
\* its list all carry its agentId, and a result whose id only another
\* agent's logs called gives a synthesized entry.
C20_NoCrossAgentMerge ==
    /\ \A agent \in Returned : \A e \in Range(query.byAgent[agent]) :
          /\ e.agentId = agent
          /\ Merged(e) => \E i \in 1..Len(LinesOf(agent)) :
                             /\ LinesOf(agent)[i].role = "assistant"
                             /\ \E k \in 1..Len(LinesOf(agent)[i].items) :
                                   LinesOf(agent)[i].items[k].id = e.toolCallId
    /\ query.pc = "scan" => \A e \in Held : e.agentId = query.agent

\* The first agent's logs hold a call and the second's a result with the
\* same toolCallId, and the second's list has the result as a synthesized
\* entry.
C20_Witness ==
    /\ query.pc = "done"
    /\ \E first, second \in Returned :
          /\ first # second
          /\ \E id \in CallIds :
                /\ \E i \in 1..Len(LinesOf(first)) : QualifyingCall(LinesOf(first)[i], id)
                /\ \E e \in Range(query.byAgent[first]) : e.toolCallId = id
                /\ \E e \in Range(query.byAgent[second]) :
                      Synthesized(e) /\ e.toolCallId = id

(***************************************************************************)
(* truncate on its own, and through the entry built for a tool result:    *)
(* a text and a bound are drawn, truncate is applied once and again; a    *)
(* result text is drawn and the entry for it is built.                    *)
(***************************************************************************)
Chars == {"a", "b"}

\* The texts of at most n characters.
RECURSIVE TextsUpTo(_)
TextsUpTo(n) ==
    IF n = 0 THEN {<<>>}
    ELSE LET shorter == TextsUpTo(n - 1)
         IN  shorter \cup {Append(s, c) : s \in {x \in shorter : Len(x) = n - 1}, c \in Chars}

\* A text of len characters.
Fill(len) == [i \in 1..len |-> "x"]

\* Lengths of result texts around the two bounds.
ResultLengths ==
    {0, 1, PREVIEW_CHARS - 1, PREVIEW_CHARS, PREVIEW_CHARS + 1, PREVIEW_CHARS + 15,
     MAX_RAW_CHARS - 1, MAX_RAW_CHARS, MAX_RAW_CHARS + 1, MAX_RAW_CHARS + 15}

\* msg.content of a result: an array with one text part, or a string.
StringContent(text) == [shape |-> "string", parts |-> <<>>, text |-> text]

ResultContents ==
    {StringContent(Fill(len)) : len \in ResultLengths}
        \cup {TextParts(<<Some(Fill(len))>>) : len \in ResultLengths}

TruncateSample(s, n) == [pc |-> "text", s |-> s, n |-> n, once |-> <<>>, twice |-> <<>>]

ResultSample(content) ==
    [pc |-> "result",
     msg |-> ResultLine(T2, "a", "exec", FALSE, NoDetails, content),
     entry |-> BareBase("main", T2, Now - T2, "exec", "a")]

SampleInit ==
    /\ session = NewSession
    /\ elapsed = FALSE
    /\ trace = <<>>
    /\ query = IdleQuery
    /\ scanned = <<>>
    /\ peer = NoPeer
    /\ sample \in {TruncateSample(s, n) : s \in TextsUpTo(MaxLen), n \in 0..MaxLen}
                     \cup {ResultSample(content) : content \in ResultContents}

\* truncate(s, n)
TruncateOnce ==
    /\ sample.pc = "text"
    /\ sample' = [sample EXCEPT !.pc = "once", !.once = Truncate(sample.s, sample.n)]

\* truncate(truncate(s, n), n)
TruncateAgain ==
    /\ sample.pc = "once"
    /\ sample' = [sample EXCEPT !.pc = "twice", !.twice = Truncate(sample.once, sample.n)]

\* The entry built for a tool result with this text.
MergeResult ==
    /\ sample.pc = "result"
    /\ sample' = [sample EXCEPT !.pc = "merged", !.entry = MergedEvent(@, sample.msg)]

SampleNext ==
    \/ TruncateOnce /\ UNCHANGED <<vars, tvars, pvars>>
    \/ TruncateAgain /\ UNCHANGED <<vars, tvars, pvars>>
    \/ MergeResult /\ UNCHANGED <<vars, tvars, pvars>>

SampleSpec == SampleInit /\ [][SampleNext]_allvars

\* C21: truncate is idempotent: truncating a truncated text again, to the
\* same bound, returns it unchanged.
C21_TruncateIdempotent ==
    sample.pc = "twice" => sample.twice = sample.once

\* A text longer than its (positive) bound was truncated twice.
C21_Witness ==
    /\ sample.pc = "twice"
    /\ sample.n > 0
    /\ Len(sample.s) > sample.n
    /\ sample.once # sample.s

\* The text of the result of the sample.
SampleText == ExtractResultText(sample.msg.content)

\* C22 as stated: the preview has at most 800 characters and the raw copy
\* at most 4000, and a text within the bound is returned unchanged.
C22_TextsWithinBounds ==
    sample.pc = "merged" =>
        /\ Len(sample.entry.resultText[1]) <= 800
        /\ Len(sample.entry.resultRaw[1]) <= 4000
        /\ Len(SampleText) <= 800 => sample.entry.resultText[1] = SampleText
        /\ Len(SampleText) <= 4000 => sample.entry.resultRaw[1] = SampleText

\* The first characters of a text, at most n.
Prefix(s, n) == SubSeq(s, 1, IF Len(s) < n THEN Len(s) ELSE n)

\* The returned text is the text itself when within the bound, else its
\* first n characters followed by the 14 characters of the mark.
CutTo(out, text, n) ==
    /\ Len(text) <= n => out = text
    /\ Len(text) > n =>
          /\ Len(out) = n + 14
          /\ Prefix(out, n) = Prefix(text, n)

\* C22 as amended: the preview keeps at most 800 characters of the text and
\* the raw copy at most 4000; a longer text is cut to that many characters
\* and the 14-character truncation mark follows, so that the preview has at
\* most 814 characters and the raw copy at most 4014; a text within the
\* bound is returned unchanged.
C22_TextsWithinBoundsAndMark ==
    sample.pc = "merged" =>
        /\ Len(sample.entry.resultText[1]) <= 800 + 14
        /\ Len(sample.entry.resultRaw[1]) <= 4000 + 14
        /\ CutTo(sample.entry.resultText[1], SampleText, 800)
        /\ CutTo(sample.entry.resultRaw[1], SampleText, 4000)

\* The entry was built for a text longer than both bounds plus the mark.
C22_Witness ==
    /\ sample.pc = "merged"
    /\ Len(SampleText) > 4000 + 14
    /\ sample.entry.resultRaw # None

(***************************************************************************)
(* Two gwRequest calls at the same time.  Each call runs the executor of   *)
(* its own promise: its own socket, `connected` flag, timer and handlers.  *)
(* The events of the two connections interleave in any order.  The second  *)
(* call is the record peer: its session, its timer and its events.         *)
(***************************************************************************)
\* A `connected` flag declared outside the executor: one flag for all calls.
SharedConnected(mine, theirs) ==
    [mine EXCEPT !.connected = mine.connected \/ theirs.connected]

\* The state a call's handlers close over: `ws`, `connected` and `timeout`
\* are declared inside the executor, so it is the call's own.
Own(mine, theirs) == mine

\* The event can happen to a call in state s whose deadline has (not) passed.
CanHappen(s, passed, ev) ==
    CASE ev.kind = "open" -> s.ws = "CONNECTING" /\ s.rx
      [] ev.kind = "message" ->
            s.ws \in {"OPEN", "CLOSING"} /\ s.rx /\ ev.msg \in Deliverable(s)
      [] ev.kind = "error" -> s.ws # "CLOSED" /\ s.rx
      [] ev.kind = "close" -> s.ws \in {"OPEN", "CLOSING"}
      [] ev.kind = "deadline" -> ~passed

\* The state of a call after the event: the transport's part and the
\* handler registered for it.
Handle(s, ev) ==
    CASE ev.kind = "open" -> [s EXCEPT !.ws = "OPEN"]
      [] ev.kind = "message" -> OnMessage(s, ev.msg)
      [] ev.kind = "error" -> [OnError(s) EXCEPT !.ws = "CLOSING", !.rx = FALSE]
      [] ev.kind = "close" -> [OnClose(s) EXCEPT !.ws = "CLOSED", !.rx = FALSE]
      [] ev.kind = "deadline" -> IF s.timeout = "armed" THEN OnTimeout(s) ELSE s

Events ==
    {Ev(kind, NoMsg) : kind \in {"open", "error", "close", "deadline"}}
        \cup {Ev("message", msg) : msg \in Messages}

NewPeer == [pc |-> "run", session |-> NewSession, elapsed |-> FALSE, trace |-> <<>>]

PairInit ==
    /\ session = NewSession
    /\ elapsed = FALSE
    /\ trace = <<>>
    /\ query = IdleQuery
    /\ scanned = <<>>
    /\ peer = NewPeer
    /\ sample = NoSample

PairBudget == Len(trace) + Len(peer.trace) < MaxPairEvents

\* An event of the second call's connection or timer.
PeerEvent ==
    /\ PairBudget
    /\ \E ev \in Events :
          /\ CanHappen(peer.session, peer.elapsed, ev)
          /\ peer' = [peer EXCEPT
                         !.session = Handle(Own(peer.session, session), ev),
                         !.elapsed = @ \/ ev.kind = "deadline",
                         !.trace = Append(@, ev)]
    /\ UNCHANGED <<vars, tvars, svars>>

PairNext ==
    \/ PairBudget /\ Open /\ UNCHANGED <<tvars, pvars, svars>>
    \/ PairBudget /\ Deliver /\ UNCHANGED <<tvars, pvars, svars>>
    \/ PairBudget /\ TransportError /\ UNCHANGED <<tvars, pvars, svars>>
    \/ PairBudget /\ TransportClose /\ UNCHANGED <<tvars, pvars, svars>>
    \/ PairBudget /\ Deadline /\ UNCHANGED <<tvars, pvars, svars>>
    \/ PeerEvent

PairSpec == PairInit /\ [][PairNext]_allvars

\* The state of a call that meets these events alone, from the start.
RECURSIVE Alone(_)
Alone(events) ==
    IF events = <<>> THEN NewSession
    ELSE Handle(Alone(SubSeq(events, 1, Len(events) - 1)), events[Len(events)])

\* The deadline has passed among these events.
Passed(events) == \E i \in 1..Len(events) : events[i].kind = "deadline"

\* A call running alone can meet these events, in this order.
RunsAlone(events) ==
    \A i \in 1..Len(events) :
        CanHappen(Alone(SubSeq(events, 1, i - 1)), Passed(SubSeq(events, 1, i - 1)), events[i])

\* C23: with two calls running at once, each call is in the state, and has
\* the outcome, of a run of its own events alone, whatever the other call
\* met meanwhile; and an event of one connection leaves the other call as
\* it was.
C23_CallsAreIndependent ==
    [][/\ session' = Alone(trace') /\ RunsAlone(trace')
       /\ peer'.session = Alone(peer'.trace) /\ RunsAlone(peer'.trace)
       /\ trace' # trace => peer' = peer
       /\ peer'.trace # peer.trace => <<session, elapsed, trace>>' = <<session, elapsed, trace>>]_allvars

\* The first call has connected and resolved while the second, running at
\* the same time, was rejected without ever connecting.
C23_Witness ==
    /\ peer # NoPeer
    /\ session.connected
    /\ session.promise.state = "fulfilled"
    /\ peer.trace # <<>>
    /\ peer.session.promise.state = "rejected"
    /\ ~peer.session.connected

(***************************************************************************)
(* Vocabulary of the properties of one scan step.                          *)
(***************************************************************************)
\* The step scans this line of the current agent's file.
Scanning(line) == scanned' = Append(scanned, Met(query.agent, "line", line))

\* The tool calls of the lines, in order: the time of the line and the item.
RECURSIVE CallsIn(_)
CallsIn(lines) ==
    IF lines = <<>> THEN <<>>
    ELSE LET line == lines[Len(lines)]
             items == IF line.parses /\ line.type = "message" /\ line.role = "assistant"
                         /\ InWindow(line)
                      THEN SelectSeq(line.items, LAMBDA c :
                               /\ c.type = "toolCall"
                               /\ PassesFilters(ToolCategory(c.name), c.name,
                                                query.req.category, query.req.tool))
                      ELSE <<>>
         IN  CallsIn(SubSeq(lines, 1, Len(lines) - 1))
                \o [i \in 1..Len(items) |-> [ts |-> line.ts, item |-> items[i]]]

\* The qualifying calls with this id that the current agent's scan has met.
CallsWith(id) == SelectSeq(CallsIn(LinesOf(query.agent)), LAMBDA c : c.item.id = id)

\* The entry the step has added to the collected ones.
Added == query'.events[Len(query'.events)]

Sends(req) == Count(session'.sent, req) > Count(session.sent, req)

\* C26: the application request is never sent before the connect request
\* was sent and a successful response with the connect id came after it:
\* the connect request is sent by a challenge, and the application request
\* by a successful connect response that follows the connect request.
C26_HandshakeBeforeRequest ==
    [][/\ Sends("connect") => Delivered(Challenge)
       /\ Sends("app") =>
             /\ \E b \in Bodies : Delivered(ConnOk(b))
             /\ ChallengeSeen(trace)
             /\ session.sent # <<>> /\ session.sent[1] = "connect"
       /\ \A i \in 1..Len(session'.sent) :
             session'.sent[i] = "app" => \E j \in 1..(i - 1) : session'.sent[j] = "connect"]_vars

\* The application request was sent in a run that also met a refused connect
\* response and a response with a foreign id.
C26_Witness ==
    /\ "app" \in Range(session.sent)
    /\ \E i \in 1..Len(trace) : IsConnectRes(trace[i]) /\ ~trace[i].msg.ok
    /\ \/ session.promise.state = "rejected"
       \/ Ev("message", OtherRes) \in Range(trace)

\* What a session consists of: the socket, the flag, the timer, the promise
\* and what it has put on the wire.
SessionState(s) == <<s.ws, s.connected, s.timeout, s.promise, s.sent>>

\* C27: once the session has its outcome (completed, failed or timed out), a
\* message that arrives is not processed: it sends nothing and changes no
\* state.
C27_NoProcessingAfterOutcome ==
    [][\A msg \in Messages :
          (Delivered(msg) /\ ~IsPending(session))
              => /\ session'.sent = session.sent
                 /\ SessionState(session') = SessionState(session)]_vars

(***************************************************************************)
(* What the limit keeps, results without a call, and the dedupe key.       *)
(***************************************************************************)
\* C28: when more entries qualify than the limit allows, the entries
\* returned are the most recent: no omitted entry is more recent than a
\* returned one.
C28_MostRecentKept ==
    \A agent \in Returned :
        agent = query.agent =>
            \A e \in Range(Dedupe(query.events)) \ Range(query.byAgent[agent]) :
                \A r \in Range(query.byAgent[agent]) : ~(e.ageMs < r.ageMs)

\* C29: a qualifying tool result whose toolCallId has no remembered call
\* (none was logged, or it lies outside the window, or a filter excluded it,
\* or it comes later) adds exactly one entry: result-bearing, with the
\* result's own timestamp, age, tool name and category, and no arguments.
C29_ResultWithoutCall ==
    [][\A line \in LogLines :
          (/\ Scanning(line)
           /\ QualifyingResult(line, line.toolCallId)
           /\ CallsWith(line.toolCallId) = <<>>)
          => /\ Len(query'.events) = Len(query.events) + 1
             /\ SubSeq(query'.events, 1, Len(query.events)) = query.events
             /\ ResultBearing(Added)
             /\ Added.agentId = query.agent
             /\ Added.toolCallId = line.toolCallId
             /\ Added.ts = line.ts
             /\ Added.ageMs = Now - line.ts
             /\ Added.tool = line.toolName
             /\ Added.category = ToolCategory(line.toolName)
             /\ Added.args = None]_allvars

\* A line of the log calls this id but does not qualify: it is outside the
\* window, or the filters exclude the call.
UnqualifiedCall(line, id) ==
    /\ line.parses /\ line.role = "assistant"
    /\ \E i \in 1..Len(line.items) : line.items[i].type = "toolCall" /\ line.items[i].id = id
    /\ ~QualifyingCall(line, id)

\* A list holds a synthesized entry for an id that the agent's log calls in
\* a line that does not qualify.
C29_Witness ==
    /\ query.pc = "done"
    /\ \E agent \in Returned :
          \E e \in Range(query.byAgent[agent]) :
              /\ Synthesized(e)
              /\ \E i \in 1..Len(LinesOf(agent)) : UnqualifiedCall(LinesOf(agent)[i], e.toolCallId)

\* The entry was built from a result whose text is empty.
EmptyText(e) == e.resultRaw = Some(<<>>)

\* The merged entry m was built on the call-only entry c.
MergedOn(m, c) ==
    /\ CallOnly(c) /\ Merged(m)
    /\ m.toolCallId = c.toolCallId /\ m.tool = c.tool /\ m.ts = c.ts

====
